---------------------------- MODULE Spec2Model ----------------------------
(***************************************************************************)
(* Verification model of slaick: the token-budget trimmer of lib/llm.py    *)
(* and the streaming turn of slaick.py (stream consumption, background     *)
(* flush threads, terminal flush, function-call continuation and the       *)
(* top-level error handlers).                                              *)
(*                                                                         *)
(* Text is a sequence of one-character strings.  Time is counted in ticks, *)
(* TicksPerSecond ticks to a second, so that the float arithmetic on       *)
(* time.time() and the int() truncation of the code keep their meaning.    *)
(***************************************************************************)
EXTENDS Integers, Sequences, FiniteSets, TLC

(***************************************************************************)
(* Bounds of the model.                                                    *)
(***************************************************************************)
\* longest message sequence handed to the trimmer
MaxMsgs == 3

\* chunks one turn's provider streams yield, over all its continuations
MaxDeltas == 4

\* last tick of the clock
MaxTime == 3

\* ticks of the clock in one second
TicksPerSecond == 2

\* function-call continuations in one turn
MaxCalls == 1

\* env.TIMEOUT_SECONDS as configured (30 by default)
TIMEOUT_SECONDS == 1

\* content deltas between two background flushes (20 in the code)
WORD_COUNT_THRESHOLD == 2

\* characters lib/formatting.py puts in one chunk (3000 in the code)
MAX_CHUNK_LENGTH == 2

\* longest text the surface accepts in one message
SurfaceLimit == 3

\* the longest text split_message is given on its own
MaxText == 4

\* the largest max_chunk_length split_message is given on its own
MaxChunkLength == 3

(***************************************************************************)
(* Generic helpers.                                                        *)
(***************************************************************************)
Last(s) == s[Len(s)]

\* all sequences over S of length 0..n
SeqsUpTo(S, n) == UNION {[1..k -> S] : k \in 0..n}

\* [x for x in s if P(x)]
RECURSIVE SelectRole(_, _, _)
SelectRole(s, role, keep) ==
    IF s = <<>> THEN <<>>
    ELSE IF (Head(s).role = role) = keep
         THEN <<Head(s)>> \o SelectRole(Tail(s), role, keep)
         ELSE SelectRole(Tail(s), role, keep)

(***************************************************************************)
(* lib/llm.py : messages_within_context_window                             *)
(*                                                                         *)
(* A message is [id, role, tokens]: id is its position in the caller's    *)
(* list, tokens is what litellm.token_counter returns for str(msg).        *)
(***************************************************************************)
Roles == {"system", "user", "assistant", "function"}

\* token counts litellm.token_counter may report for one message
TokenVals == {1, 2}

\* litellm.model_cost[model]["max_input_tokens"] of the configured model
ModelLimits == {2, 4, 5, 104}

\* env.MAX_RESPONSE_TOKENS
ResponseTokens == {0, 1}

\* the fixed reservation for function calls
FUNCTION_CALL_RESERVATION == 100

\* count_tokens(msgs)
RECURSIVE count_tokens(_)
count_tokens(msgs) ==
    IF msgs = <<>> THEN 0 ELSE Head(msgs).tokens + count_tokens(Tail(msgs))

\* a budget that forgets the reservation for function calls
max_context_tokens_not_reserved(max_input_tokens, max_tokens, function_call_module_name) ==
    max_input_tokens - max_tokens - 1

\* max_context_tokens
max_context_tokens_of(max_input_tokens, max_tokens, function_call_module_name) ==
    LET base == max_input_tokens - max_tokens - 1
    IN  IF function_call_module_name THEN base - FUNCTION_CALL_RESERVATION ELSE base

\* a message of the list
Message(id, role, tokens) == [id |-> id, role |-> role, tokens |-> tokens]

\* an id no message of the list has
NextId(msgs) ==
    IF msgs = <<>> THEN 1
    ELSE 1 + (CHOOSE n \in {msgs[i].id : i \in 1..Len(msgs)} :
                 \A i \in 1..Len(msgs) : msgs[i].id <= n)

\* Python's None where a message is expected
NoMessage == [id |-> 0, role |-> "none", tokens |-> 0]

\* next((msg for msg in messages if msg["role"] == "system"), None)
system_message_of(messages) ==
    LET sys == SelectRole(messages, "system", TRUE)
    IN  IF sys = <<>> THEN NoMessage ELSE Head(sys)

\* [msg for msg in messages if msg["role"] != "system"]
messages_to_trim_of(messages) == SelectRole(messages, "system", FALSE)

\* count_tokens([system_message]) if system_message else 0
system_tokens(system_message) ==
    IF system_message = NoMessage THEN 0 ELSE system_message.tokens

\* a trimmer that drops the system message with the rest of the window
system_list_dropped(system_message) == <<>>

\* [system_message] if system_message else []
system_list(system_message) ==
    IF system_message = NoMessage THEN <<>> ELSE <<system_message>>

\* a loop condition that also removes from a window that just fits
over_budget_or_equal(messages_to_trim, system_message, max_context_tokens) ==
    count_tokens(messages_to_trim) + system_tokens(system_message)
        >= max_context_tokens

\* a loop condition that forgets the system message's tokens
over_budget_no_system(messages_to_trim, system_message, max_context_tokens) ==
    count_tokens(messages_to_trim) > max_context_tokens

\* the condition of the while loop
over_budget(messages_to_trim, system_message, max_context_tokens) ==
    count_tokens(messages_to_trim) + system_tokens(system_message)
        > max_context_tokens

\* a loop without the break on an empty list
loop_exits_without_break(messages_to_trim, system_message, max_context_tokens) ==
    ~over_budget(messages_to_trim, system_message, max_context_tokens)

\* the loop is left: its condition is false, or nothing is left and it breaks
loop_exits(messages_to_trim, system_message, max_context_tokens) ==
    \/ ~over_budget(messages_to_trim, system_message, max_context_tokens)
    \/ messages_to_trim = <<>>

\* a pop() that removes the newest message
pop_last(messages_to_trim) == SubSeq(messages_to_trim, 1, Len(messages_to_trim) - 1)

\* messages_to_trim.pop(0): what is left of the list
pop_first(messages_to_trim) == Tail(messages_to_trim)

\* a pop(0) on the caller's own list
messages_after_pop_aliased(messages) ==
    IF messages = <<>> THEN messages ELSE Tail(messages)

\* messages_to_trim is a list of its own, built by the comprehension: the
\* caller's messages after messages_to_trim.pop(0)
messages_after_pop(messages) == messages

\* a loop that removes a message before it tests the budget
RECURSIVE trim_loop_pop_before_test(_, _, _)
trim_loop_pop_before_test(messages_to_trim, system_message, max_context_tokens) ==
    IF messages_to_trim = <<>>
    THEN messages_to_trim
    ELSE LET rest == pop_first(messages_to_trim)
         IN  IF over_budget(rest, system_message, max_context_tokens)
             THEN trim_loop_pop_before_test(rest, system_message, max_context_tokens)
             ELSE rest

\* the while loop as a function: pop(0) until the window fits or nothing is
\* left to trim
RECURSIVE trim_loop(_, _, _)
trim_loop(messages_to_trim, system_message, max_context_tokens) ==
    IF over_budget(messages_to_trim, system_message, max_context_tokens)
    THEN IF messages_to_trim = <<>>
         THEN messages_to_trim
         ELSE trim_loop(pop_first(messages_to_trim), system_message, max_context_tokens)
    ELSE messages_to_trim

\* the whole function: (final_messages, final_token_count, max_context_tokens)
messages_within_context_window(messages, max_input_tokens, max_tokens, fn_module) ==
    LET max_context_tokens ==
            max_context_tokens_of(max_input_tokens, max_tokens, fn_module)
        system_message == system_message_of(messages)
        kept == trim_loop(messages_to_trim_of(messages), system_message,
                          max_context_tokens)
        final_messages == system_list(system_message) \o kept
    IN  [final_messages     |-> final_messages,
         final_token_count  |-> count_tokens(final_messages),
         max_context_tokens |-> max_context_tokens]


(***************************************************************************)
(* lib/formatting.py : text helpers.                                       *)
(***************************************************************************)
NL == "\n"

Whitespace == {NL, " "}

\* " ... :writing_hand:", one token of the surface text
LOADING == <<"<writing_hand>">>

\* DEFAULT_LOADING_TEXT, the text of a freshly posted in-progress message
DEFAULT_LOADING_TEXT == <<"<loading_text>">>

\* TIMEOUT_ERROR_MESSAGE
TIMEOUT_ERROR_MESSAGE == <<"<timeout_notice>">>

\* ":warning: Failed to start a conversation with ChatGPT: {error_message}"
FAILED_MESSAGE == <<"<failed_notice>">>

\* the vendored format_assistant_reply: its first rewrite removes the
\* newlines the text starts with
RECURSIVE format_assistant_reply(_)
format_assistant_reply(content) ==
    IF content # <<>> /\ Head(content) = NL
    THEN format_assistant_reply(Tail(content))
    ELSE content

\* format_assistant_reply(content, translate_markdown) or ""
format_llm_message_for_slack(content) ==
    LET r == format_assistant_reply(content)
    IN  IF r = <<>> THEN <<>> ELSE r

\* str.strip()
RECURSIVE lstrip(_)
lstrip(s) ==
    IF s # <<>> /\ Head(s) \in Whitespace THEN lstrip(Tail(s)) ELSE s

RECURSIVE rstrip(_)
rstrip(s) ==
    IF s # <<>> /\ Last(s) \in Whitespace
    THEN rstrip(SubSeq(s, 1, Len(s) - 1))
    ELSE s

\* chunks appended as they are
strip_nothing(s) == s

strip(s) == rstrip(lstrip(s))

\* message.split("\n"): the lines of s, Acc being the line under construction
RECURSIVE split_lines(_, _)
split_lines(s, acc) ==
    IF s = <<>> THEN <<acc>>
    ELSE IF Head(s) = NL
         THEN <<acc>> \o split_lines(Tail(s), <<>>)
         ELSE split_lines(Tail(s), Append(acc, Head(s)))

\* slices that start one character late
RECURSIVE hard_split_chunks_shifted(_, _)
hard_split_chunks_shifted(line, max_chunk_length) ==
    IF Len(line) > max_chunk_length
    THEN <<SubSeq(line, 2, max_chunk_length + 1)>>
         \o hard_split_chunks_shifted(SubSeq(line, max_chunk_length + 1, Len(line)),
                                      max_chunk_length)
    ELSE <<>>

\* while len(line) > max_chunk_length: the pieces cut off the line
RECURSIVE hard_split_chunks(_, _)
hard_split_chunks(line, max_chunk_length) ==
    IF Len(line) > max_chunk_length
    THEN <<SubSeq(line, 1, max_chunk_length)>>
         \o hard_split_chunks(SubSeq(line, max_chunk_length + 1, Len(line)),
                              max_chunk_length)
    ELSE <<>>

\* a slice that starts one character late
RECURSIVE hard_split_rest_skips_one(_, _)
hard_split_rest_skips_one(line, max_chunk_length) ==
    IF Len(line) > max_chunk_length
    THEN hard_split_rest_skips_one(SubSeq(line, max_chunk_length + 2, Len(line)),
                                   max_chunk_length)
    ELSE line

\* ... and what is left of the line after the while loop
RECURSIVE hard_split_rest(_, _)
hard_split_rest(line, max_chunk_length) ==
    IF Len(line) > max_chunk_length
    THEN hard_split_rest(SubSeq(line, max_chunk_length + 1, Len(line)),
                         max_chunk_length)
    ELSE line

\* the for loop of split_message over the remaining lines
RECURSIVE split_loop(_, _, _, _)
split_loop(lines, current_chunk, chunks, max_chunk_length) ==
    IF lines = <<>>
    THEN IF current_chunk # <<>>
         THEN Append(chunks, strip(current_chunk))
         ELSE chunks
    ELSE LET line == Head(lines)
         IN  IF Len(current_chunk) + Len(line) + 1 > max_chunk_length
             THEN LET closed == IF current_chunk # <<>>
                                THEN Append(chunks, strip(current_chunk))
                                ELSE chunks
                  IN  split_loop(Tail(lines),
                                 hard_split_rest(line, max_chunk_length) \o <<NL>>,
                                 closed \o hard_split_chunks(line, max_chunk_length),
                                 max_chunk_length)
             ELSE split_loop(Tail(lines), current_chunk \o line \o <<NL>>,
                             chunks, max_chunk_length)

\* split_message(message, max_chunk_length)
split_message(message, max_chunk_length) ==
    split_loop(split_lines(message, <<>>), <<>>, <<>>, max_chunk_length)


(***************************************************************************)
(* State.                                                                  *)
(***************************************************************************)
VARIABLES
    \* the trimmer, run on its own
    trim_pc,            \* "call", "loop" or "return"
    trim_args,          \* messages, max_input_tokens, max_tokens, function_call_module_name
    system_message,     \* the local of that name
    messages_to_trim,   \* the local of that name
    trim_result,        \* final_messages, final_token_count, max_context_tokens
    trim_iterations,    \* how many times the body of the while loop ran to its end
    \* one turn: _process_message and what it calls
    pc,                 \* where the turn's own thread is
    cur,                \* the frame of _consume_litellm_stream it is in, 0 outside
    now,                \* time.time(), in ticks
    frames,             \* one record per call of _consume_litellm_stream
    threads,            \* the background flush threads, in spawn order: the frame
                        \* a thread belongs to, how far it is, the content it
                        \* read and the text it made of it
    streams,            \* the provider streams opened: "open" or "closed", and
                        \* the messages each was opened with
    messages,           \* the messages list of the turn
    remaining_timeout,  \* the argument of _handle_function_call, in ticks
    exc,                \* the exception propagating, "none" if none
    handled,            \* which handler of _process_message ran
    wip_reply_text,     \* wip_reply["message"]["text"]
    surface,            \* the messaging surface: the in-progress message and its thread
    flush_log,          \* the synchronous calls of _update_slack_message
    num_context_tokens, \* the locals of _process_message of these names,
    max_context_tokens, \* 0 before the window is trimmed
    \* split_message, run on its own
    split_pc,           \* "call" or "return"
    split_args,         \* message, max_chunk_length
    split_result,       \* the chunks returned
    \* the events of one message of the workspace
    ev_msg,             \* the message: where it was posted, by whom, what it mentions
    ev_stage            \* how far each of its events got: "not_sent", "pending",
                        \* "answered" by the middleware, "authorized", and from the
                        \* handler "returned" or "turn"

trim_vars == <<trim_pc, trim_args, system_message, messages_to_trim, trim_result,
               trim_iterations>>

turn_vars == <<pc, cur, now, frames, threads, streams, messages,
               remaining_timeout, exc, handled, wip_reply_text, surface,
               flush_log, num_context_tokens, max_context_tokens>>

split_vars == <<split_pc, split_args, split_result>>

event_vars == <<ev_msg, ev_stage>>

vars == <<trim_vars, turn_vars, split_vars, event_vars>>

(***************************************************************************)
(* The trimmer as a state machine (lib/llm.py lines 116-159).              *)
(***************************************************************************)
\* the caller's lists: every sequence of at most MaxMsgs messages
InputMessages ==
    {[i \in 1..Len(s) |-> [id |-> i, role |-> s[i][1], tokens |-> s[i][2]]] :
        s \in SeqsUpTo(Roles \X TokenVals, MaxMsgs)}

NoResult == [final_messages |-> <<>>, final_token_count |-> 0,
             max_context_tokens |-> 0]

TrimIdle ==
    /\ trim_pc = "idle"
    /\ trim_args = [messages |-> <<>>, max_input_tokens |-> 0, max_tokens |-> 0,
                    function_call_module_name |-> FALSE]
    /\ system_message = NoMessage
    /\ messages_to_trim = <<>>
    /\ trim_result = NoResult
    /\ trim_iterations = 0

trim_max_context_tokens ==
    max_context_tokens_of(trim_args.max_input_tokens, trim_args.max_tokens,
                          trim_args.function_call_module_name)

\* lines 116-133: the budget, the system message and the list to trim
TrimEnter ==
    /\ trim_pc = "call"
    /\ system_message' = system_message_of(trim_args.messages)
    /\ messages_to_trim' = messages_to_trim_of(trim_args.messages)
    /\ trim_pc' = "loop"
    /\ UNCHANGED <<trim_args, trim_result, trim_iterations, turn_vars, split_vars, event_vars>>

\* lines 135-146, one iteration that removes the oldest message
TrimPop ==
    /\ trim_pc = "loop"
    /\ over_budget(messages_to_trim, system_message, trim_max_context_tokens)
    /\ messages_to_trim # <<>>
    /\ messages_to_trim' = pop_first(messages_to_trim)
    /\ trim_args' = [trim_args EXCEPT !.messages = messages_after_pop(@)]
    /\ trim_iterations' = trim_iterations + 1
    /\ UNCHANGED <<trim_pc, system_message, trim_result, turn_vars, split_vars, event_vars>>

\* lines 135-159: the loop ends (condition false, or break) and the function returns
TrimReturn ==
    /\ trim_pc = "loop"
    /\ loop_exits(messages_to_trim, system_message, trim_max_context_tokens)
    /\ LET final_messages == system_list(system_message) \o messages_to_trim
       IN  trim_result' = [final_messages     |-> final_messages,
                           final_token_count  |-> count_tokens(final_messages),
                           max_context_tokens |-> trim_max_context_tokens]
    /\ trim_pc' = "return"
    /\ UNCHANGED <<trim_args, system_message, messages_to_trim, trim_iterations,
                   turn_vars, split_vars, event_vars>>


(***************************************************************************)
(* The chunks a provider stream yields.  A chunk is told by what the loop  *)
(* body asks of it: chunk.choices, delta.content is not None,              *)
(* delta.get("function_call") is not None, and the fragments it carries.   *)
(***************************************************************************)
Chunk(choices, has_content, content, has_function_call, name, arguments) ==
    [choices |-> choices, has_content |-> has_content, content |-> content,
     has_function_call |-> has_function_call, name |-> name,
     arguments |-> arguments]

DeltaSet ==
    { Chunk(FALSE, FALSE, <<>>, FALSE, <<>>, <<>>),      \* no choices
      Chunk(TRUE, TRUE, <<"a">>, FALSE, <<>>, <<>>),     \* content "a"
      Chunk(TRUE, TRUE, <<NL>>, FALSE, <<>>, <<>>),      \* content "\n"
      Chunk(TRUE, TRUE, <<>>, FALSE, <<>>, <<>>),        \* content ""
      Chunk(TRUE, FALSE, <<>>, TRUE, <<"f">>, <<>>),     \* function_call name
      Chunk(TRUE, FALSE, <<>>, TRUE, <<>>, <<"{}">>) }   \* function_call arguments

\* the names getattr finds in the function-call module
FunctionTable == { <<"f">> }

\* the argument strings json.loads accepts
ValidJson == { <<"{}">> }

\* line 791: getattr(function_call_module, function_call["name"]) raises
getattr_raises(name) == name \notin FunctionTable

\* a parser that accepts every string
json_loads_raises_never(arguments) == FALSE

\* line 792: json.loads(function_call["arguments"]) raises
json_loads_raises(arguments) == arguments \notin ValidJson

\* a result that is appended twice
append_function_message_twice(msgs) ==
    LET once == Append(msgs, Message(NextId(msgs), "function", 1))
    IN  Append(once, Message(NextId(once), "function", 1))

\* lines 794-799: messages.append(function_message)
append_function_message(msgs) == Append(msgs, Message(NextId(msgs), "function", 1))

\* start_litellm_stream(messages=messages, ...): the stream and what it was
\* opened with
open_stream(msgs) == [status |-> "open", messages |-> msgs]

\* exceptions the provider client raises: openai.APITimeoutError and any other
ProviderErrors == {"APITimeoutError", "APIError"}

(***************************************************************************)
(* _consume_litellm_stream, lines 655-661: a new frame.                    *)
(***************************************************************************)
NewFrame(timeout_seconds) ==
    [start_time |-> now,
     timeout_seconds |-> timeout_seconds,
     content |-> <<>>,
     has_function_call_key |-> FALSE,
     word_count |-> 0,
     threads |-> <<>>,
     function_call |-> [name |-> <<>>, arguments |-> <<>>],
     received |-> <<>>,
     state |-> "STREAMING"]

\* all chunks received in the turn so far
RECURSIVE TotalReceived(_)
TotalReceived(fs) ==
    IF fs = <<>> THEN 0 ELSE Len(Head(fs).received) + TotalReceived(Tail(fs))

\* Thread.is_alive()
is_alive(t) == threads[t].status \in {"started", "formatted"}

\* a join that does not wait
threads_joined_nowait(f) == TRUE

\* lines 700-705: for t in threads: t.join() has returned for every thread
threads_joined(f) == \A i \in 1..Len(frames[f].threads) : ~is_alive(frames[f].threads[i])

\* a finally block that does not wait
finally_threads_joined_nowait(f) == TRUE

\* lines 730-735: the same loop in the finally block
finally_threads_joined(f) ==
    \A i \in 1..Len(frames[f].threads) : ~is_alive(frames[f].threads[i])

\* a check against a clock that is never read
timeout_expired_never(timeout_seconds, spent_ticks) == FALSE

\* line 665: timeout_seconds < spent_seconds
timeout_expired(timeout_seconds, spent_ticks) ==
    timeout_seconds * TicksPerSecond < spent_ticks

\* a += that assigns
accumulate_assign(content, delta_content) == delta_content

\* line 674: assistant_reply["content"] += delta.get("content")
accumulate(content, delta_content) == content \o delta_content

\* a guard that accepts every function-call delta
function_call_accepted_always(content) == TRUE

\* line 695: assistant_reply["content"] == ""
function_call_accepted(content) == content = <<>>

\* a branch that never finds a buffered name
has_function_name_never(function_call) == FALSE

\* line 707: if function_call["name"] != ""
has_function_name(function_call) == function_call.name # <<>>

\* a terminal flush that keeps the in-progress suffix
terminal_loading_character_kept == LOADING

\* line 724: the loading_character of the terminal flush
terminal_loading_character == <<>>

\* int(remaining_timeout), remaining_timeout in ticks: truncation toward zero
int_seconds(ticks) ==
    IF ticks >= 0 THEN ticks \div TicksPerSecond
    ELSE -((-ticks) \div TicksPerSecond)

(***************************************************************************)
(* _update_slack_message and _send_long_message_in_chunks on the surface.  *)
(* fail = 0: no call fails; fail = 1: update_wip_message raises another    *)
(* SlackApiError than msg_too_long; fail = k + 1: the call that sends      *)
(* chunk k raises.  The result is the surface, wip_reply's text and        *)
(* whether an exception leaves the function.                               *)
(***************************************************************************)
msg_too_long(text) == Len(text) > SurfaceLimit

\* wip_reply["message"]["ts"], which names the in-progress message
WIP_TS == "wip_ts"

\* the chunk whose send raises, 0 if none does: the first one the surface
\* rejects for its size, or the one fail names if that comes first
failing_chunk(sent_texts, fail) ==
    LET too_long == {i \in 1..Len(sent_texts) : msg_too_long(sent_texts[i])}
        by_size == IF too_long = {} THEN 0
                   ELSE CHOOSE i \in too_long : \A j \in too_long : i <= j
        by_fail == IF fail = 0 THEN 0 ELSE fail - 1
    IN  IF by_size = 0 THEN by_fail
        ELSE IF by_fail = 0 \/ by_size <= by_fail THEN by_size ELSE by_fail

\* e.response["error"] of the SlackApiError that chunk k's send raises
chunk_error(sent_texts, k) ==
    IF k = 0 THEN "none"
    ELSE IF msg_too_long(sent_texts[k]) THEN "msg_too_long" ELSE "other"

\* a delivery that posts every chunk, the first one too, as a new message
send_long_message_in_chunks_all_posted(sf, wtext, text, loading_character, who, fail) ==
    LET chunks == split_message(text, MAX_CHUNK_LENGTH)
        n == Len(chunks)
        suffix(i) == IF chunks[i] # chunks[n] THEN loading_character ELSE <<>>
        sent_texts == [i \in 1..n |-> chunks[i] \o suffix(i)]
        failing == failing_chunk(sent_texts, fail)
        sent == IF failing = 0 THEN n ELSE failing - 1
        posts == [i \in 1..sent |-> [thread_ts |-> WIP_TS, text |-> sent_texts[i]]]
    IN  [raised |-> failing # 0,
         error |-> chunk_error(sent_texts, failing),
         surface |-> [sf EXCEPT !.followups = @ \o posts],
         wip_text |-> IF failing = 0 THEN text ELSE wtext]

\* lines 564-594
send_long_message_in_chunks(sf, wtext, text, loading_character, who, fail) ==
    LET chunks == split_message(text, MAX_CHUNK_LENGTH)
        n == Len(chunks)
        suffix(i) == IF chunks[i] # chunks[n] THEN loading_character ELSE <<>>
        sent_texts == [i \in 1..n |->
                          IF i = 1 THEN chunks[1] \o loading_character
                          ELSE chunks[i] \o suffix(i)]
        failing == failing_chunk(sent_texts, fail)
        sent == IF failing = 0 THEN n ELSE failing - 1
        first == IF sent >= 1
                 THEN [sf EXCEPT !.wip = sent_texts[1], !.writer = who]
                 ELSE sf
        posts == [i \in 1..(IF sent >= 2 THEN sent - 1 ELSE 0) |->
                     [thread_ts |-> WIP_TS, text |-> sent_texts[i + 1]]]
    IN  [raised |-> failing # 0,
         error |-> chunk_error(sent_texts, failing),
         surface |-> [first EXCEPT !.followups = @ \o posts],
         wip_text |-> IF failing = 0 THEN text ELSE wtext]

\* a renderer that re-raises the size rejection
update_slack_message_no_recovery(sf, wtext, text, loading_character, who, fail) ==
    IF fail = 1
    THEN [raised |-> TRUE, error |-> "other", surface |-> sf, wip_text |-> wtext]
    ELSE IF msg_too_long(text \o loading_character)
         THEN [raised |-> TRUE, error |-> "msg_too_long", surface |-> sf,
               wip_text |-> wtext]
         ELSE [raised |-> FALSE,
               error |-> "none",
               surface |-> [sf EXCEPT !.wip = text \o loading_character,
                                      !.writer = who],
               wip_text |-> text]

\* lines 498-530, text being the formatted assistant_reply_text
update_slack_message(sf, wtext, text, loading_character, who, fail) ==
    IF fail = 1
    THEN [raised |-> TRUE, error |-> "other", surface |-> sf, wip_text |-> wtext]
    ELSE IF msg_too_long(text \o loading_character)
         THEN send_long_message_in_chunks(sf, wtext, text, loading_character,
                                          who, fail)
         ELSE [raised |-> FALSE,
               error |-> "none",
               surface |-> [sf EXCEPT !.wip = text \o loading_character,
                                      !.writer = who],
               wip_text |-> text]

\* the exception a call of the surface raises, told by its error code
slack_api_error(error) ==
    IF error = "none" THEN "none"
    ELSE IF error = "msg_too_long" THEN "SlackApiError(msg_too_long)"
    ELSE "SlackApiError"

\* the values of fail that make sense for one call
FailChoices(text, loading_character) ==
    IF msg_too_long(text \o loading_character)
    THEN {0, 1} \cup {k + 1 : k \in 1..Len(split_message(text, MAX_CHUNK_LENGTH))}
    ELSE {0, 1}


(***************************************************************************)
(* The turn (slaick.py).  It starts where _process_message has posted the  *)
(* in-progress message and the trimmed window fits the budget, at the call *)
(* of _process_litellm_response.                                           *)
(***************************************************************************)
TurnIdle ==
    /\ pc = "idle"
    /\ cur = 0
    /\ now = 0
    /\ frames = <<>>
    /\ threads = <<>>
    /\ streams = <<>>
    /\ messages = <<>>
    /\ remaining_timeout = 0
    /\ exc = "none"
    /\ handled = "none"
    /\ wip_reply_text = <<>>
    /\ surface = [wip |-> <<>>, writer |-> "none", deleted |-> FALSE,
                  followups |-> <<>>, newer_reply |-> FALSE]
    /\ flush_log = <<>>
    /\ num_context_tokens = 0
    /\ max_context_tokens = 0

\* the windows a turn starts with, as _prepare_messages returns them: one
\* that fits once its oldest message is removed, and one whose system
\* message alone is over the budget
TurnWindows ==
    { <<Message(1, "system", 1), Message(2, "user", 2), Message(3, "user", 1)>>,
      <<Message(1, "system", 4), Message(2, "user", 1)>> }

\* litellm.model_cost[model]["max_input_tokens"] of the turn's model
TurnModelLimit == 104

\* int(MAX_RESPONSE_TOKENS) of the turn
TurnResponseTokens == 0

\* OPENAI_FUNCTION_CALL_MODULE_NAME is set: the turn has a function table
TurnFunctionModule == TRUE

\* ":warning: The previous message is too long (.../... prompt tokens)."
TOO_LONG_MESSAGE == <<"<too_long_notice>">>

\* a test that never finds the window too long
window_too_long_never(num, max) == FALSE

\* if num_context_tokens > max_context_tokens
window_too_long(num, max) == num > max

TurnInit ==
    /\ pc = "prepare"
    /\ cur = 0
    /\ now = 0
    /\ frames = <<>>
    /\ threads = <<>>
    /\ streams = <<>>
    /\ messages = <<>>
    /\ remaining_timeout = 0
    /\ exc = "none"
    /\ handled = "none"
    /\ wip_reply_text = <<>>
    /\ surface = [wip |-> <<>>, writer |-> "none", deleted |-> FALSE,
                  followups |-> <<>>, newer_reply |-> FALSE]
    /\ flush_log = <<>>
    /\ num_context_tokens = 0
    /\ max_context_tokens = 0

\* line 260 was reached: the local variable wip_reply is bound, and the
\* in-progress message exists
wip_reply_bound == surface.writer # "none"

\* lines 233-260: the history is fetched, the messages are prepared and the
\* in-progress message is posted; the turn returns early at lines 239-253, or
\* one of the calls raises
Prepare ==
    /\ pc = "prepare"
    /\ \/ /\ messages' \in TurnWindows
          /\ wip_reply_text' = DEFAULT_LOADING_TEXT
          /\ surface' = [surface EXCEPT !.wip = DEFAULT_LOADING_TEXT,
                                        !.writer = "post_wip_message"]
          /\ pc' = "trim"
          /\ UNCHANGED exc
       \/ /\ pc' = "returned"
          /\ UNCHANGED <<messages, wip_reply_text, surface, exc>>
       \/ /\ exc' \in {"SlackApiError", "Exception"}
          /\ pc' = "except"
          /\ UNCHANGED <<messages, wip_reply_text, surface>>
    /\ UNCHANGED <<cur, now, frames, threads, streams, remaining_timeout,
                   handled, flush_log, num_context_tokens, max_context_tokens,
                   trim_vars, split_vars, event_vars>>

\* lines 263-279: the window is trimmed and tested against the budget
Trim ==
    /\ pc = "trim"
    /\ LET r == messages_within_context_window(messages, TurnModelLimit,
                                               TurnResponseTokens,
                                               TurnFunctionModule)
       IN  /\ messages' = r.final_messages
           /\ num_context_tokens' = r.final_token_count
           /\ max_context_tokens' = r.max_context_tokens
           /\ pc' = IF window_too_long(r.final_token_count, r.max_context_tokens)
                    THEN "long_message"
                    ELSE "get_stream"
    /\ UNCHANGED <<cur, now, frames, threads, streams, remaining_timeout, exc,
                   handled, wip_reply_text, surface, flush_log, trim_vars,
                   split_vars, event_vars>>

\* lines 414-429: _handle_long_message writes its notice, or the surface raises
HandleLongMessage ==
    /\ pc = "long_message"
    /\ \/ /\ surface' = [surface EXCEPT !.wip = TOO_LONG_MESSAGE,
                                        !.writer = "long_message"]
          /\ pc' = "returned"
          /\ UNCHANGED exc
       \/ /\ exc' = "SlackApiError"
          /\ pc' = "except"
          /\ UNCHANGED surface
    /\ UNCHANGED <<cur, now, frames, threads, streams, messages,
                   remaining_timeout, handled, wip_reply_text, flush_log,
                   num_context_tokens, max_context_tokens, trim_vars, split_vars, event_vars>>

\* the call of _consume_litellm_stream with the stream just opened
EnterConsume(timeout_seconds) ==
    /\ frames' = Append(frames, NewFrame(timeout_seconds))
    /\ messages' = Append(messages, Message(NextId(messages), "assistant", 1))
    /\ cur' = Len(frames) + 1
    /\ pc' = "loop"

\* line 444: _get_litellm_stream opens the stream, or the provider raises
GetStream ==
    /\ pc = "get_stream"
    /\ \/ /\ streams' = Append(streams, open_stream(messages))
          /\ pc' = "freshness"
          /\ UNCHANGED exc
       \/ /\ \E e \in ProviderErrors : exc' = e
          /\ pc' = "except"
          /\ UNCHANGED streams
    /\ UNCHANGED <<cur, now, frames, threads, messages, remaining_timeout,
                   handled, wip_reply_text, surface, flush_log, num_context_tokens,
                   max_context_tokens, trim_vars, split_vars, event_vars>>

\* lines 447-470: the freshness check, then the consumer is entered
Freshness ==
    /\ pc = "freshness"
    /\ \/ /\ surface.newer_reply
          /\ surface' = [surface EXCEPT !.deleted = TRUE,
                                        !.writer = "chat_delete"]
          /\ pc' = "returned"
          /\ UNCHANGED <<cur, frames, messages, exc>>
       \/ /\ ~surface.newer_reply
          /\ EnterConsume(TIMEOUT_SECONDS)
          /\ UNCHANGED <<surface, exc>>
       \/ /\ exc' = "SlackApiError"      \* conversations_replies raises
          /\ pc' = "except"
          /\ UNCHANGED <<cur, frames, messages, surface>>
    /\ UNCHANGED <<now, threads, streams, remaining_timeout, handled,
                   wip_reply_text, flush_log, num_context_tokens,
                   max_context_tokens, trim_vars, split_vars, event_vars>>

\* a user posts a newer reply in the thread: before the freshness check, or
\* after it, when nothing reads the thread any more; the moment after the
\* check makes no difference to what the code does, and the reply is let in
\* at the last one, before the terminal flush
NewerReply ==
    /\ pc \in {"get_stream", "freshness", "terminal"}
    /\ ~surface.newer_reply
    /\ surface' = [surface EXCEPT !.newer_reply = TRUE]
    /\ UNCHANGED <<pc, cur, now, frames, threads, streams, messages,
                   remaining_timeout, exc, handled, wip_reply_text, flush_log,
                   num_context_tokens,
                   max_context_tokens, trim_vars, split_vars, event_vars>>

\* time passes while the turn waits: for the next chunk, for the threads it
\* joins, for the function it called, for the stream it opens
Tick ==
    /\ pc \in {"loop", "join", "fc_invoke", "fc_stream"}
    /\ now < MaxTime
    /\ now' = now + 1
    /\ UNCHANGED <<pc, cur, frames, threads, streams, messages,
                   remaining_timeout, exc, handled, wip_reply_text, surface,
                   flush_log, num_context_tokens,
                   max_context_tokens, trim_vars, split_vars, event_vars>>

\* a test that lets one more delta pass
threshold_reached_late(word_count) == word_count > WORD_COUNT_THRESHOLD

\* line 676: if word_count >= 20
threshold_reached(word_count) == word_count >= WORD_COUNT_THRESHOLD

\* lines 672-698: what the loop body does with a chunk that has choices
ApplyDelta(f, d) ==
    IF d.has_content
    THEN LET word_count == f.word_count + 1
             g == [f EXCEPT !.content = accumulate(f.content, d.content)]
         IN  IF threshold_reached(word_count)
             THEN [g EXCEPT !.word_count = 0,
                            !.threads = Append(@, Len(threads) + 1)]
             ELSE [g EXCEPT !.word_count = word_count]
    ELSE IF d.has_function_call /\ function_call_accepted(f.content)
         THEN [f EXCEPT !.function_call =
                           [name |-> @.name \o d.name,
                            arguments |-> @.arguments \o d.arguments],
                        !.has_function_call_key = TRUE]
         ELSE f

\* lines 663-698: the stream yields a chunk; one iteration of the loop
StreamDelta ==
    /\ pc = "loop"
    /\ TotalReceived(frames) < MaxDeltas
    /\ \E d \in DeltaSet :
         LET f == [frames[cur] EXCEPT !.received = Append(@, d)]
             spent == now - f.start_time
         IN  IF timeout_expired(f.timeout_seconds, spent)
             THEN /\ frames' = [frames EXCEPT ![cur] = [f EXCEPT !.state = "TIMEOUT"]]
                  /\ exc' = "TimeoutError"
                  /\ pc' = "finally"
                  /\ UNCHANGED threads
             ELSE LET g == IF d.choices THEN ApplyDelta(f, d) ELSE f
                  IN  /\ frames' = [frames EXCEPT ![cur] = g]
                      /\ threads' =
                           IF Len(g.threads) > Len(f.threads)
                           THEN Append(threads, [frame |-> cur,
                                                 status |-> "started",
                                                 exc |-> "none",
                                                 scheduled |-> g.content,
                                                 content |-> <<>>,
                                                 text |-> <<>>])
                           ELSE threads
                      /\ UNCHANGED <<exc, pc>>
    /\ UNCHANGED <<cur, now, streams, messages, remaining_timeout, handled,
                   wip_reply_text, surface, flush_log, num_context_tokens,
                   max_context_tokens, trim_vars, split_vars, event_vars>>

\* line 663: the stream is exhausted
StreamEnd ==
    /\ pc = "loop"
    /\ pc' = "join"
    /\ UNCHANGED <<cur, now, frames, threads, streams, messages,
                   remaining_timeout, exc, handled, wip_reply_text, surface,
                   flush_log, num_context_tokens,
                   max_context_tokens, trim_vars, split_vars, event_vars>>

\* line 663: the provider raises while the stream is read
StreamError ==
    /\ pc = "loop"
    /\ \E e \in ProviderErrors : exc' = e
    /\ frames' = [frames EXCEPT ![cur].state = "ERROR"]
    /\ pc' = "finally"
    /\ UNCHANGED <<cur, now, threads, streams, messages, remaining_timeout,
                   handled, wip_reply_text, surface, flush_log, num_context_tokens,
                   max_context_tokens, trim_vars, split_vars, event_vars>>

\* lines 700-707: the threads are joined, then the branch on function_call["name"]
JoinThreads ==
    /\ pc = "join"
    /\ threads_joined(cur)
    /\ IF has_function_name(frames[cur].function_call)
       THEN /\ pc' = "fc_call"
            /\ frames' = [frames EXCEPT ![cur].state = "FUNCTION_CALL"]
       ELSE /\ pc' = "terminal"
            /\ UNCHANGED frames
    /\ UNCHANGED <<cur, now, threads, streams, messages, remaining_timeout,
                   exc, handled, wip_reply_text, surface, flush_log, num_context_tokens,
                   max_context_tokens, trim_vars, split_vars, event_vars>>

\* lines 718-727: the terminal, synchronous flush
TerminalFlush ==
    /\ pc = "terminal"
    /\ LET text == format_llm_message_for_slack(frames[cur].content)
           loading_character == terminal_loading_character
       IN  /\ flush_log' = Append(flush_log,
                                  [frame |-> cur, content |-> frames[cur].content,
                                   text |-> text,
                                   loading_character |-> loading_character])
           /\ \E fail \in FailChoices(text, loading_character) :
                LET r == update_slack_message(surface, wip_reply_text, text,
                                              loading_character, "terminal", fail)
                IN  /\ surface' = r.surface
                    /\ wip_reply_text' = r.wip_text
                    /\ exc' = slack_api_error(r.error)
                    /\ frames' = [frames EXCEPT ![cur].state =
                                     IF r.raised THEN "ERROR" ELSE "DONE"]
    /\ pc' = "finally"
    /\ UNCHANGED <<cur, now, threads, streams, messages, remaining_timeout,
                   handled, num_context_tokens,
                   max_context_tokens, trim_vars, split_vars, event_vars>>


\* lines 707-716 and 789-792: the call of _handle_function_call, whose
\* argument is the time left; the function is looked up and the arguments parsed
FcCall ==
    /\ pc = "fc_call"
    /\ LET f == frames[cur]
       IN  /\ remaining_timeout' =
                f.timeout_seconds * TicksPerSecond - (now - f.start_time)
           /\ IF getattr_raises(f.function_call.name)
              THEN /\ exc' = "AttributeError"
                   /\ pc' = "finally"
              ELSE IF json_loads_raises(f.function_call.arguments)
                   THEN /\ exc' = "JSONDecodeError"
                        /\ pc' = "finally"
                   ELSE /\ pc' = "fc_invoke"
                        /\ UNCHANGED exc
    /\ UNCHANGED <<cur, now, frames, threads, streams, messages, handled,
                   wip_reply_text, surface, flush_log, num_context_tokens,
                   max_context_tokens, trim_vars, split_vars, event_vars>>

\* lines 793-806: the function runs; its result is appended as a function
\* message and the trimmer is called, its result dropped
FcInvoke ==
    /\ pc = "fc_invoke"
    /\ \/ /\ messages' = append_function_message(messages)
          /\ pc' = "fc_stream"
          /\ UNCHANGED exc
       \/ /\ exc' = "Exception"
          /\ pc' = "finally"
          /\ UNCHANGED messages
    /\ UNCHANGED <<cur, now, frames, threads, streams, remaining_timeout,
                   handled, wip_reply_text, surface, flush_log, num_context_tokens,
                   max_context_tokens, trim_vars, split_vars, event_vars>>

\* lines 807-822: the continuation stream is opened and consumed
FcStream ==
    /\ pc = "fc_stream"
    /\ \/ /\ Len(frames) <= MaxCalls
          /\ streams' = Append(streams, open_stream(messages))
          /\ EnterConsume(int_seconds(remaining_timeout))
          /\ UNCHANGED exc
       \/ /\ \E e \in ProviderErrors : exc' = e
          /\ pc' = "finally"
          /\ UNCHANGED <<cur, frames, messages, streams>>
    /\ UNCHANGED <<now, threads, remaining_timeout, handled, wip_reply_text,
                   surface, flush_log, num_context_tokens,
                   max_context_tokens, trim_vars, split_vars, event_vars>>

\* lines 729-740: the finally block of frame cur; control then is back in the
\* caller: the frame below, or _process_message
Finally ==
    /\ pc = "finally"
    /\ finally_threads_joined(cur)
    /\ streams' = [streams EXCEPT ![cur].status = "closed"]
    /\ cur' = cur - 1
    /\ pc' = IF cur > 1 THEN "finally"
             ELSE IF exc = "none" THEN "returned" ELSE "except"
    /\ UNCHANGED <<now, frames, threads, messages, remaining_timeout, exc,
                   handled, wip_reply_text, surface, flush_log, num_context_tokens,
                   max_context_tokens, trim_vars, split_vars, event_vars>>

\* lines 290-295: which handler an exception reaches
handler_of(e) == IF e = "APITimeoutError" THEN "timeout" ELSE "error"

\* lines 597-618 and 743-767: the notice a handler appends
notice_of(h) == IF h = "timeout" THEN TIMEOUT_ERROR_MESSAGE ELSE FAILED_MESSAGE

\* a notice that replaces the text of the in-progress message
failure_text_notice_only(wip_text, notice) == notice

\* lines 605-614 and 752-761: the last rendered text, a blank line, the notice
failure_text(wip_text, notice) == wip_text \o <<NL, NL>> \o notice

\* lines 290-295: the except clauses of _process_message. Before line 260
\* wip_reply is unbound, and reading it to call the handler raises
\* UnboundLocalError out of the except clause.
Except ==
    /\ pc = "except"
    /\ IF wip_reply_bound
       THEN /\ handled' = handler_of(exc)
            /\ \/ /\ surface' = [surface EXCEPT
                                    !.wip = failure_text(wip_reply_text,
                                               notice_of(handler_of(exc))),
                                    !.writer = handler_of(exc)]
                  /\ exc' = "none"
               \/ /\ exc' = "SlackApiError"       \* chat_update raises
                  /\ UNCHANGED surface
       ELSE /\ exc' = "UnboundLocalError"
            /\ UNCHANGED <<handled, surface>>
    /\ pc' = "returned"
    /\ UNCHANGED <<cur, now, frames, threads, streams, messages,
                   remaining_timeout, wip_reply_text, flush_log, num_context_tokens,
                   max_context_tokens, trim_vars, split_vars, event_vars>>

\* a thread that was handed an empty copy of the text
shared_content_empty(f) == <<>>

\* line 499: assistant_reply["content"], the dictionary the loop appends to,
\* read when the thread runs
shared_content(f) == frames[f].content

\* lines 498-500, in a background thread: the text is read and formatted
BgFormat(t) ==
    /\ threads[t].status = "started"
    /\ threads' = [threads EXCEPT ![t].status = "formatted",
                                  ![t].content = shared_content(threads[t].frame),
                                  ![t].text = format_llm_message_for_slack(
                                                 shared_content(threads[t].frame))]
    /\ UNCHANGED <<pc, cur, now, frames, streams, messages, remaining_timeout,
                   exc, handled, wip_reply_text, surface, flush_log, num_context_tokens,
                   max_context_tokens, trim_vars, split_vars, event_vars>>

\* an exception of a thread that is raised in the main thread
main_thread_exc_propagated(e, thread_exc) == IF thread_exc # "none" THEN thread_exc ELSE e

\* lines 690-693: the flush runs in a threading.Thread; an exception its
\* target raises ends the thread and leaves the main thread's as it is
main_thread_exc(e, thread_exc) == e

\* lines 503-530, in a background thread: the surface is updated
BgUpdate(t) ==
    /\ threads[t].status = "formatted"
    /\ \E fail \in FailChoices(threads[t].text, LOADING) :
         LET r == update_slack_message(surface, wip_reply_text, threads[t].text,
                                       LOADING, "background", fail)
         IN  /\ surface' = r.surface
             /\ wip_reply_text' = r.wip_text
             /\ threads' = [threads EXCEPT ![t].status =
                               IF r.raised THEN "raised" ELSE "finished",
                                            ![t].exc = slack_api_error(r.error)]
             /\ exc' = main_thread_exc(exc, slack_api_error(r.error))
    /\ UNCHANGED <<pc, cur, now, frames, streams, messages, remaining_timeout,
                   handled, flush_log, num_context_tokens,
                   max_context_tokens, trim_vars, split_vars, event_vars>>

(***************************************************************************)
(* Specifications.                                                         *)
(***************************************************************************)
(***************************************************************************)
(* split_message as a call of its own (lib/formatting.py lines 61-106).    *)
(***************************************************************************)
\* the characters of a text: a letter, a blank and the line separator
Chars == {"a", " ", NL}

SplitIdle ==
    /\ split_pc = "idle"
    /\ split_args = [message |-> <<>>, max_chunk_length |-> MAX_CHUNK_LENGTH]
    /\ split_result = <<>>

\* the call and its return
SplitCall ==
    /\ split_pc = "call"
    /\ split_result' = split_message(split_args.message, split_args.max_chunk_length)
    /\ split_pc' = "return"
    /\ UNCHANGED <<split_args, trim_vars, turn_vars, event_vars>>

(***************************************************************************)
(* The events of one message: before_authorize, handle_app_mention,        *)
(* handle_message and the early returns of _process_message (slaick.py     *)
(* lines 58-93 and 143-253).                                               *)
(***************************************************************************)
\* the event types the app registers handlers for (main.py lines 21-22)
EventTypes == {"message", "app_mention"}

\* line 58: MESSAGE_SUBTYPES_TO_SKIP
MESSAGE_SUBTYPES_TO_SKIP == {"message_changed", "message_deleted"}

\* the messages of the workspace as the payloads describe them: channel_type,
\* whether thread_ts is set, whether the text and the thread's parent mention
\* the bot, whose bot_id the message carries, its subtype, and whether
\* conversations_replies finds no message in its thread
EventMessages ==
    { m \in [channel_type : {"im", "mpim", "channel"},
             thread_ts : BOOLEAN,
             mentioned : BOOLEAN,
             parent_mentioned : BOOLEAN,
             bot_id : {"none", "self", "other"},
             subtype : {"none", "message_changed", "message_deleted"},
             replies_empty : BOOLEAN] :
        /\ m.parent_mentioned => m.thread_ts
        /\ m.replies_empty => m.thread_ts }

NoEventMessage ==
    [channel_type |-> "channel", thread_ts |-> FALSE, mentioned |-> FALSE,
     parent_mentioned |-> FALSE, bot_id |-> "none", subtype |-> "none",
     replies_empty |-> FALSE]

\* a middleware that skips edits only
skipped_edits_only(type, m) == type = "message" /\ m.subtype = "message_changed"

\* lines 83-87: is_event(body), payload type "message", subtype to skip
skipped(type, m) == type = "message" /\ m.subtype \in MESSAGE_SUBTYPES_TO_SKIP

\* lines 166-172: handle_app_mention calls _process_message
app_mention_processes(m) == ~(m.thread_ts /\ m.parent_mentioned)

\* line 203: channel_type is "im" or "mpim"
is_in_dm(m) == m.channel_type \in {"im", "mpim"}

\* lines 200-211: handle_message calls _process_message
message_processes(m) ==
    /\ ~(m.bot_id # "none" /\ m.bot_id # "self")
    /\ \/ is_in_dm(m)
       \/ ~is_in_dm(m) /\ m.thread_ts /\ m.parent_mentioned

\* lines 233-253: _process_message passes its early returns
process_message_starts_turn(m) ==
    /\ ~(~is_in_dm(m) /\ ~m.thread_ts /\ ~m.mentioned)
    /\ ~(m.replies_empty /\ m.thread_ts)

EventIdle ==
    /\ ev_msg = NoEventMessage
    /\ ev_stage = [t \in EventTypes |-> "not_sent"]

\* lines 83-93: before_authorize answers the request or calls next_()
BeforeAuthorize(t) ==
    /\ ev_stage[t] = "pending"
    /\ ev_stage' = [ev_stage EXCEPT ![t] = IF skipped(t, ev_msg) THEN "answered"
                                                                ELSE "authorized"]
    /\ UNCHANGED <<ev_msg, trim_vars, turn_vars, split_vars>>

\* lines 143-172: handle_app_mention
HandleAppMention ==
    /\ ev_stage["app_mention"] = "authorized"
    /\ ev_stage' = [ev_stage EXCEPT !["app_mention"] =
                       IF app_mention_processes(ev_msg)
                          /\ process_message_starts_turn(ev_msg)
                       THEN "turn" ELSE "returned"]
    /\ UNCHANGED <<ev_msg, trim_vars, turn_vars, split_vars>>

\* lines 175-211: handle_message
HandleMessage ==
    /\ ev_stage["message"] = "authorized"
    /\ ev_stage' = [ev_stage EXCEPT !["message"] =
                       IF message_processes(ev_msg)
                          /\ process_message_starts_turn(ev_msg)
                       THEN "turn" ELSE "returned"]
    /\ UNCHANGED <<ev_msg, trim_vars, turn_vars, split_vars>>

\* a message is posted: its message event is delivered, and with it an
\* app_mention event or none when its text mentions the bot
InitEvents ==
    /\ TrimIdle
    /\ TurnIdle
    /\ SplitIdle
    /\ ev_msg \in EventMessages
    /\ ev_stage \in [EventTypes -> {"pending", "not_sent"}]
    /\ ev_stage["message"] = "pending"
    /\ ev_stage["app_mention"] = "pending" => ev_msg.mentioned

NextEvents ==
    \/ \E t \in EventTypes : BeforeAuthorize(t)
    \/ HandleAppMention
    \/ HandleMessage

SpecEvents == InitEvents /\ [][NextEvents]_vars

Init == TrimIdle /\ TurnInit /\ SplitIdle /\ EventIdle

Next ==
    \/ Prepare
    \/ Trim
    \/ HandleLongMessage
    \/ GetStream
    \/ Freshness
    \/ NewerReply
    \/ Tick
    \/ StreamDelta
    \/ StreamEnd
    \/ StreamError
    \/ JoinThreads
    \/ TerminalFlush
    \/ FcCall
    \/ FcInvoke
    \/ FcStream
    \/ Finally
    \/ Except
    \/ \E t \in 1..Len(threads) : BgFormat(t)
    \/ \E t \in 1..Len(threads) : BgUpdate(t)

Spec == Init /\ [][Next]_vars

InitTrim ==
    /\ TurnIdle
    /\ SplitIdle
    /\ EventIdle
    /\ trim_pc = "call"
    /\ trim_args \in [messages : InputMessages,
                      max_input_tokens : ModelLimits,
                      max_tokens : ResponseTokens,
                      function_call_module_name : BOOLEAN]
    /\ system_message = NoMessage
    /\ messages_to_trim = <<>>
    /\ trim_result = NoResult
    /\ trim_iterations = 0

NextTrim == TrimEnter \/ TrimPop \/ TrimReturn

SpecTrim == InitTrim /\ [][NextTrim]_vars

\* the call runs on one thread that nothing suspends for ever
SpecTrimFair == SpecTrim /\ WF_vars(NextTrim)

InitSplit ==
    /\ TurnIdle
    /\ TrimIdle
    /\ EventIdle
    /\ split_pc = "call"
    /\ split_args \in [message : SeqsUpTo(Chars, MaxText),
                       max_chunk_length : 1..MaxChunkLength]
    /\ split_result = <<>>

NextSplit == SplitCall

SpecSplit == InitSplit /\ [][NextSplit]_vars


(***************************************************************************)
(* Properties of the stream consumer and its flushes.                      *)
(***************************************************************************)
Frames == 1..Len(frames)

Threads == 1..Len(threads)

AllButLast(s) == SubSeq(s, 1, Len(s) - 1)

\* the chunks of frame i the loop body was run on: the chunk on whose arrival
\* TimeoutError is raised is dropped unread
Applied(i) ==
    IF frames[i].state = "TIMEOUT"
    THEN AllButLast(frames[i].received)
    ELSE frames[i].received

\* the content of the content deltas of a chunk sequence, in order
RECURSIVE ContentOf(_)
ContentOf(ds) ==
    IF ds = <<>> THEN <<>>
    ELSE (IF Head(ds).choices /\ Head(ds).has_content
          THEN Head(ds).content ELSE <<>>) \o ContentOf(Tail(ds))

\* the function-call fragments of a chunk sequence that arrive while the
\* content before them (seen) is empty
RECURSIVE FunctionCallOf(_, _)
FunctionCallOf(ds, seen) ==
    IF ds = <<>> THEN [name |-> <<>>, arguments |-> <<>>]
    ELSE LET d == Head(ds)
             rest == FunctionCallOf(Tail(ds), seen \o ContentOf(<<d>>))
         IN  IF d.choices /\ ~d.has_content /\ d.has_function_call /\ seen = <<>>
             THEN [name |-> d.name \o rest.name,
                   arguments |-> d.arguments \o rest.arguments]
             ELSE rest

\* C1: when a consumption ends in DONE, every background flush of the turn had
\* completed before the terminal flush started, nothing writes to the render
\* target after it, and the last write to the in-progress message is the
\* terminal flush's.
C1_TerminalFlushLast ==
    /\ pc = "terminal" => \A t \in Threads : ~is_alive(t)
    /\ \A i \in Frames :
         frames[i].state = "DONE" =>
            /\ \A t \in Threads : ~is_alive(t)
            /\ surface.writer = "terminal"

\* a turn that ended in DONE after two background flushes had run
C1_Witness ==
    /\ \E i \in Frames : frames[i].state = "DONE"
    /\ Len(threads) >= 2
    /\ threads[1].status = "finished"
    /\ threads[2].status = "finished"

\* C2: at DONE exactly one synchronous flush has been made; it was given the
\* complete accumulated text, sent its formatted form, and carried no
\* in-progress indicator, whatever the background flushes did.
C2_OneTerminalFlush ==
    \A i \in Frames :
      frames[i].state = "DONE" =>
         /\ Len(flush_log) = 1
         /\ flush_log[1].frame = i
         /\ flush_log[1].content = frames[i].content
         /\ flush_log[1].text = format_llm_message_for_slack(frames[i].content)
         /\ flush_log[1].loading_character = <<>>
         /\ ~msg_too_long(flush_log[1].text) => surface.wip = flush_log[1].text

\* DONE with text on the surface after a background flush had been scheduled
C2_Witness ==
    \E i \in Frames :
       /\ frames[i].state = "DONE"
       /\ Len(frames[i].threads) >= 1
       /\ frames[i].content = <<"a", "a">>
       /\ surface.wip = <<"a", "a">>

\* C3: once control has left a consumption, on whatever path, every
\* background flush thread it spawned has terminated.
C3_ThreadsJoinedOnExit ==
    \A i \in Frames :
      i > cur =>
         \A k \in 1..Len(frames[i].threads) : ~is_alive(frames[i].threads[k])

\* the timeout error has reached the caller of a consumption that had spawned
\* a background flush
C3_Witness ==
    /\ pc = "except"
    /\ exc = "TimeoutError"
    /\ Len(frames[1].threads) >= 1

\* C4: the accumulated text is the concatenation, in arrival order, of the
\* content of the content deltas the loop has been run on.
C4_AccumulatedText ==
    \A i \in Frames : frames[i].content = ContentOf(Applied(i))

\* two different content deltas, a chunk without choices and a function-call
\* delta have arrived
C4_Witness ==
    \E i \in Frames :
       /\ frames[i].content = <<NL, "a">>
       /\ Len(frames[i].received) = 4
       /\ \E k \in 1..4 : ~frames[i].received[k].choices
       /\ \E k \in 1..4 : frames[i].received[k].has_function_call

\* C5: the function-call buffer holds the fragments of exactly the
\* function-call deltas that arrived while the accumulated text was empty, and
\* the function-call branch is taken only on a buffered name.
C5_FunctionCallOnlyOnEmptyText ==
    \A i \in Frames :
       /\ frames[i].function_call = FunctionCallOf(Applied(i), <<>>)
       /\ frames[i].state = "FUNCTION_CALL" =>
             FunctionCallOf(Applied(i), <<>>).name # <<>>

\* a function-call delta with a name arrived after content, and the
\* consumption went on to the terminal flush
C5_Witness ==
    \E i \in Frames :
       /\ frames[i].state = "DONE"
       /\ frames[i].function_call.name = <<>>
       /\ \E j, k \in 1..Len(frames[i].received) :
            /\ j < k
            /\ frames[i].received[j].content # <<>>
            /\ frames[i].received[k].name # <<>>

\* C6: content and function call are mutually exclusive: the function-call
\* continuation is never taken with accumulated text, and the terminal flush
\* is never made with a buffered function name.
C6_MutuallyExclusive ==
    /\ \A i \in Frames :
         frames[i].state = "FUNCTION_CALL" => frames[i].content = <<>>
    /\ pc = "terminal" => frames[cur].function_call.name = <<>>

\* C7: once the time spent exceeds the timeout while the consumer is
\* streaming, the loop is not left as if the stream had ended normally, and no
\* delta is applied to the text or to the function-call buffer.
C7_TimeoutWhileStreaming ==
    [][(/\ pc = "loop"
        /\ timeout_expired(frames[cur].timeout_seconds,
                           now - frames[cur].start_time))
       => /\ pc' # "join"
          /\ frames'[cur].content = frames[cur].content
          /\ frames'[cur].function_call = frames[cur].function_call]_vars

\* C8: when the consumer aborted on its timeout and the top-level handler has
\* written its notice, that notice is the timeout notice.
C8_TimeoutNotice ==
    (/\ pc = "returned"
     /\ exc = "none"
     /\ \E i \in Frames : frames[i].state = "TIMEOUT")
    => /\ handled = "timeout"
       /\ surface.writer = "timeout"

(***************************************************************************)
(* Properties of the trimmer.                                              *)
(***************************************************************************)
SystemPositions(msgs) == {i \in 1..Len(msgs) : msgs[i].role = "system"}

\* the sum of the token counts, taken from the end of the window
RECURSIVE TokenSum(_)
TokenSum(msgs) ==
    IF msgs = <<>> THEN 0
    ELSE Last(msgs).tokens + TokenSum(AllButLast(msgs))

\* C9: for an input with exactly one system message, the returned window
\* holds that message, as its first element.
C9_SystemMessageFirst ==
    (trim_pc = "return" /\ Cardinality(SystemPositions(trim_args.messages)) = 1)
    => LET p == CHOOSE i \in SystemPositions(trim_args.messages) : TRUE
           final == trim_result.final_messages
       IN  /\ final # <<>>
           /\ Head(final) = trim_args.messages[p]
           /\ SystemPositions(final) = {1}

\* the one system message was the last of three messages, and everything
\* else was trimmed away without reaching the budget
C9_Witness ==
    /\ trim_pc = "return"
    /\ Len(trim_args.messages) = 3
    /\ SystemPositions(trim_args.messages) = {3}
    /\ Len(trim_result.final_messages) = 1
    /\ trim_result.final_token_count > trim_result.max_context_tokens

\* C10: on return the window fits the budget or holds no non-system message,
\* and the returned count is the sum over the returned window.
C10_FitsOrNothingLeft ==
    trim_pc = "return" =>
       LET final == trim_result.final_messages
       IN  /\ \/ trim_result.final_token_count <= trim_result.max_context_tokens
              \/ \A i \in 1..Len(final) : final[i].role = "system"
           /\ trim_result.final_token_count = TokenSum(final)

\* one message was removed and the rest, a system and a user message, fits
C10_Witness ==
    /\ trim_pc = "return"
    /\ Len(trim_args.messages) = 3
    /\ Len(trim_result.final_messages) = 2
    /\ trim_result.final_messages[1].role = "system"
    /\ trim_result.final_messages[2].role = "user"
    /\ trim_result.final_token_count = trim_result.max_context_tokens

\* a is what is left of b after removing some of its first elements
IsSuffix(a, b) ==
    /\ Len(a) <= Len(b)
    /\ a = SubSeq(b, Len(b) - Len(a) + 1, Len(b))

NonSystem(msgs) == SelectSeq(msgs, LAMBDA m : m.role # "system")

\* C11: the non-system messages of the returned window are a suffix of the
\* non-system messages of the input, in the same order: only the oldest are
\* removed.
C11_OldestRemoved ==
    trim_pc = "return" =>
       IsSuffix(NonSystem(trim_result.final_messages), NonSystem(trim_args.messages))

\* the scenario [system, user, user] with the budget one short of the whole:
\* the older user message is removed, the newer one stays
C11_Witness ==
    /\ trim_pc = "return"
    /\ Len(trim_args.messages) = 3
    /\ trim_args.messages[1].role = "system"
    /\ trim_args.messages[2].role = "user"
    /\ trim_args.messages[3].role = "user"
    /\ trim_args.messages[2].tokens = 1
    /\ trim_args.messages[3].tokens = 2
    /\ trim_result.max_context_tokens = 3
    /\ trim_result.final_messages = <<trim_args.messages[1], trim_args.messages[3]>>
    /\ trim_result.final_token_count = 3

\* C12: the trimming loop terminates: every iteration that does not leave the
\* loop removes exactly one message, so the iterations never outnumber the
\* non-system messages of the input, and the call returns.
C12_LoopTerminates ==
    /\ <>(trim_pc = "return")
    /\ [](trim_pc \in {"loop", "return"} =>
            /\ trim_iterations <= Len(NonSystem(trim_args.messages))
            /\ Len(messages_to_trim)
                  = Len(NonSystem(trim_args.messages)) - trim_iterations)

\* the loop ran once for each of three non-system messages and broke out on
\* the empty list, still over the budget
C12_Witness ==
    /\ trim_pc = "return"
    /\ trim_iterations = 3
    /\ Len(NonSystem(trim_args.messages)) = 3
    /\ trim_result.final_token_count > trim_result.max_context_tokens

\* C13: trimming again a returned window that fits the budget, under the same
\* budget, returns the same messages, the same count and the same budget.
C13_Idempotent ==
    (trim_pc = "return"
     /\ trim_result.final_token_count <= trim_result.max_context_tokens)
    => messages_within_context_window(trim_result.final_messages,
                                      trim_args.max_input_tokens,
                                      trim_args.max_tokens,
                                      trim_args.function_call_module_name)
         = trim_result

\* a window of a system message and a later message, returned under the
\* budget after the first trim removed a message
C13_Witness ==
    /\ trim_pc = "return"
    /\ trim_iterations = 1
    /\ Len(trim_result.final_messages) = 2
    /\ trim_result.final_messages[1].role = "system"
    /\ trim_result.final_token_count < trim_result.max_context_tokens

\* the token reservation for function calls of a call
ReservedFunctionTokens ==
    IF trim_args.function_call_module_name THEN FUNCTION_CALL_RESERVATION ELSE 0

\* C14: the budget returned is the model's context limit minus the reserved
\* response tokens minus the reserved function tokens, exactly.
C14_AvailableTokens ==
    trim_pc = "return" =>
       trim_result.max_context_tokens
          = trim_args.max_input_tokens - trim_args.max_tokens
              - ReservedFunctionTokens

\* C14, amended: the budget returned is the model's context limit minus the
\* reserved response tokens minus one minus the reserved function tokens.
C14_AvailableTokensLessOne ==
    trim_pc = "return" =>
       trim_result.max_context_tokens
          = trim_args.max_input_tokens - trim_args.max_tokens - 1
              - ReservedFunctionTokens

\* a call with a function table and reserved response tokens has returned
C14_Witness ==
    /\ trim_pc = "return"
    /\ trim_args.function_call_module_name
    /\ trim_args.max_tokens = 1
    /\ trim_args.max_input_tokens = 104
    /\ trim_result.max_context_tokens = 2

\* C15: the trimmer leaves the caller's message sequence as it was.
C15_CallerMessagesUnchanged ==
    [][trim_args'.messages = trim_args.messages]_vars

\* every message of a caller's list of three was removed from the window,
\* and the caller's list still holds the three
C15_Witness ==
    /\ trim_pc = "return"
    /\ trim_result.final_messages = <<>>
    /\ Len(trim_args.messages) = 3
    /\ \A i \in 1..3 : trim_args.messages[i].id = i

(***************************************************************************)
(* Properties of split_message.                                            *)
(***************************************************************************)
IsPrefix(a, b) == Len(a) <= Len(b) /\ a = SubSeq(b, 1, Len(a))

Drop(s, n) == SubSeq(s, n + 1, Len(s))

AllWhitespace(s) == \A i \in 1..Len(s) : s[i] \in Whitespace

\* text is the chunks cs in order, with a line separator or nothing between
\* one chunk and the next
RECURSIVE Rejoins(_, _)
Rejoins(cs, text) ==
    IF cs = <<>> THEN text = <<>>
    ELSE /\ IsPrefix(Head(cs), text)
         /\ LET rest == Drop(text, Len(Head(cs)))
            IN  IF Len(cs) = 1 THEN rest = <<>>
                ELSE \/ Rejoins(Tail(cs), rest)
                     \/ /\ rest # <<>>
                        /\ Head(rest) = NL
                        /\ Rejoins(Tail(cs), Tail(rest))

\* text is the chunks cs in order, with only whitespace before, between and
\* after them
RECURSIVE Covers(_, _)
Covers(cs, text) ==
    IF cs = <<>> THEN AllWhitespace(text)
    ELSE \E k \in 0..Len(text) :
            /\ AllWhitespace(SubSeq(text, 1, k))
            /\ IsPrefix(Head(cs), Drop(text, k))
            /\ Covers(Tail(cs), Drop(text, k + Len(Head(cs))))

\* C17: for every text and every max_chunk_length of at least 1, every chunk
\* split_message returns is at most max_chunk_length long.
C17_ChunkLength ==
    split_pc = "return" =>
       \A i \in 1..Len(split_result) :
          Len(split_result[i]) <= split_args.max_chunk_length

\* a line as long as the limit was kept whole: with its separator the chunk
\* under construction was one longer than the limit before it was stripped
C17_Witness ==
    /\ split_pc = "return"
    /\ split_args = [message |-> <<"a", "a", NL, "a">>, max_chunk_length |-> 2]
    /\ split_result = << <<"a", "a">>, <<"a">> >>

\* C18: the chunks in order, with the line separators put back between them,
\* are the input text: no character, whitespace included, is lost or moved.
C18_Lossless ==
    split_pc = "return" => Rejoins(split_result, split_args.message)

\* C18, amended: the chunks are pieces of the input text, in order, and what
\* the input has before, between and after them is whitespace only.
C18_LosslessButWhitespace ==
    split_pc = "return" => Covers(split_result, split_args.message)

\* a text was cut at a line separator, and the blank its first line starts
\* with is in no chunk
C18_Witness ==
    /\ split_pc = "return"
    /\ split_args = [message |-> <<" ", "a", NL, "a">>, max_chunk_length |-> 2]
    /\ split_result = << <<"a">>, <<"a">> >>

(***************************************************************************)
(* Properties of a turn whose window is over the budget.                   *)
(***************************************************************************)
\* the in-progress message as _send_wip_message left it
Untouched(sf) ==
    /\ sf.wip = DEFAULT_LOADING_TEXT
    /\ sf.writer = "post_wip_message"
    /\ sf.followups = <<>>
    /\ ~sf.deleted

\* C16: when the trimmed window is still over the budget, no provider stream
\* is opened in the turn, and the only write to the in-progress message is
\* the "too long" notice.
C16_TooLongNoStream ==
    /\ [](num_context_tokens > max_context_tokens => streams = <<>>)
    /\ [][(num_context_tokens' > max_context_tokens' /\ surface' # surface)
            => /\ Untouched(surface)
               /\ surface' = [surface EXCEPT !.wip = TOO_LONG_MESSAGE,
                                             !.writer = "long_message"]]_vars

\* C16, amended: when the trimmed window is still over the budget, no
\* provider stream is opened in the turn, and the only write to the
\* in-progress message is the "too long" notice or, when the surface raised
\* on that write, the failure notice of the top-level handler.
C16_TooLongNoStreamOneNotice ==
    /\ [](num_context_tokens > max_context_tokens => streams = <<>> /\ frames = <<>>)
    /\ [][(num_context_tokens' > max_context_tokens' /\ surface' # surface)
            => /\ Untouched(surface)
               /\ \/ surface' = [surface EXCEPT !.wip = TOO_LONG_MESSAGE,
                                                !.writer = "long_message"]
                  \/ /\ pc = "except"
                     /\ exc = "SlackApiError"
                     /\ surface' = [surface EXCEPT
                                       !.wip = DEFAULT_LOADING_TEXT \o <<NL, NL>>
                                                  \o FAILED_MESSAGE,
                                       !.writer = "error"]]_vars

\* every non-system message was trimmed away, the system message alone is
\* over the budget, and the turn ended on the "too long" notice
C16_Witness ==
    /\ pc = "returned"
    /\ num_context_tokens > max_context_tokens
    /\ Len(messages) = 1
    /\ messages[1].role = "system"
    /\ surface.wip = TOO_LONG_MESSAGE
    /\ streams = <<>>

(***************************************************************************)
(* Properties of the delivery in chunks.                                   *)
(***************************************************************************)
\* a surface text without the loading character it may end with
WithoutLoading(t) ==
    IF t # <<>> /\ Last(t) = LOADING[1] THEN AllButLast(t) ELSE t

FollowupTexts(sf) == [k \in 1..Len(sf.followups) |-> sf.followups[k].text]

\* the messages a reader of the thread should see for a finished text
ExpectedMessages(text) ==
    IF msg_too_long(text) THEN split_message(text, MAX_CHUNK_LENGTH) ELSE <<text>>

\* C19: when a consumption is done, whatever the number of flushes that hit
\* the size limit, the in-progress message and the follow-up messages are, in
\* order, exactly the chunks of the final text: no follow-up of an earlier
\* flush is left over or posted twice.
C19_FollowUpsOncePerChunk ==
    \A i \in Frames :
       frames[i].state = "DONE" =>
          <<surface.wip>> \o FollowupTexts(surface)
             = ExpectedMessages(format_llm_message_for_slack(frames[i].content))

\* this step delivers text, too long with its loading character, in chunks
DeliversInChunks(text, loading_character) ==
    /\ msg_too_long(text \o loading_character)
    /\ surface' # surface
    /\ LET chunks == split_message(text, MAX_CHUNK_LENGTH)
           old == Len(surface.followups)
           new == Len(surface'.followups) - old
       IN  /\ WithoutLoading(surface'.wip) = chunks[1]
           /\ new >= 0
           /\ new <= Len(chunks) - 1
           /\ SubSeq(surface'.followups, 1, old) = surface.followups
           /\ \A k \in 1..new :
                 /\ surface'.followups[old + k].thread_ts = WIP_TS
                 /\ WithoutLoading(surface'.followups[old + k].text) = chunks[k + 1]

\* C20: a render delivered in chunks updates the in-progress message with the
\* first chunk and posts every later chunk as a new message of the thread of
\* the in-progress message, in the order of the chunks split_message returns;
\* all of them when no call of the surface raises.
C20_ChunkDelivery ==
    [][/\ (/\ pc = "terminal"
           /\ pc' = "finally"
           /\ msg_too_long(format_llm_message_for_slack(frames[cur].content)))
          => LET text == format_llm_message_for_slack(frames[cur].content)
             IN  /\ surface' # surface => DeliversInChunks(text, <<>>)
                 /\ exc' = "none" =>
                       Len(surface'.followups) = Len(surface.followups)
                          + Len(split_message(text, MAX_CHUNK_LENGTH)) - 1
       /\ \A t \in Threads :
            (/\ threads[t].status = "formatted"
             /\ threads'[t].status # "formatted"
             /\ msg_too_long(threads[t].text \o LOADING))
            => /\ surface' # surface => DeliversInChunks(threads[t].text, LOADING)
               /\ threads'[t].status = "finished" =>
                     Len(surface'.followups) = Len(surface.followups)
                        + Len(split_message(threads[t].text, MAX_CHUNK_LENGTH)) - 1
      ]_vars

\* the terminal flush of a text of four characters was delivered as two
\* chunks: the in-progress message holds the first, the newest message of
\* its thread the second
C20_Witness ==
    /\ pc = "returned"
    /\ frames # <<>>
    /\ frames[1].state = "DONE"
    /\ frames[1].content = <<"a", "a", "a", "a">>
    /\ surface.writer = "terminal"
    /\ surface.wip = <<"a", "a">>
    /\ surface.followups # <<>>
    /\ Last(surface.followups) = [thread_ts |-> WIP_TS, text |-> <<"a", "a">>]

\* this step sends the chunks of text with the suffix on every chunk but the
\* last one, and on none when loading_character is empty
SuffixOnAllButLast(text, loading_character) ==
    LET chunks == split_message(text, MAX_CHUNK_LENGTH)
        n == Len(chunks)
        old == Len(surface.followups)
        new == Len(surface'.followups) - old
        expected(i) == chunks[i] \o (IF i < n THEN loading_character ELSE <<>>)
    IN  /\ surface'.wip = expected(1)
        /\ \A k \in 1..new : surface'.followups[old + k].text = expected(k + 1)

\* C21: in a render delivered in chunks by a background flush every chunk but
\* the very last is sent with the in-progress suffix and the very last
\* without it, whatever the chunks are; in the terminal render no chunk is
\* sent with the suffix.
C21_SuffixOnChunks ==
    [][/\ (/\ pc = "terminal"
           /\ pc' = "finally"
           /\ msg_too_long(format_llm_message_for_slack(frames[cur].content))
           /\ surface' # surface)
          => SuffixOnAllButLast(format_llm_message_for_slack(frames[cur].content),
                                <<>>)
       /\ \A t \in Threads :
            (/\ threads[t].status = "formatted"
             /\ threads'[t].status # "formatted"
             /\ msg_too_long(threads[t].text \o LOADING)
             /\ surface' # surface)
            => SuffixOnAllButLast(threads[t].text, LOADING)
      ]_vars

\* C22: a rejection of a render for its size is recovered inside the
\* renderer: it leaves neither the synchronous render, where it would reach
\* the consumer and the top-level handler, nor a background flush.
C22_TooLongRecovered ==
    /\ exc # "SlackApiError(msg_too_long)"
    /\ \A t \in Threads : threads[t].exc # "SlackApiError(msg_too_long)"

\* the surface rejected the final text of a consumption for its size, and
\* the turn ended without any handler: the text is there in two chunks
C22_Witness ==
    /\ pc = "returned"
    /\ handled = "none"
    /\ frames # <<>>
    /\ frames[1].state = "DONE"
    /\ frames[1].content = <<"a", NL, "a", "a">>
    /\ surface.wip = <<"a">>
    /\ surface.followups # <<>>
    /\ Last(surface.followups).text = <<"a", "a">>

\* C23: if a newer reply has appeared in the thread before the terminal
\* flush, the in-progress message is deleted and the terminal flush does not
\* update it.
C23_FreshBeforeTerminalFlush ==
    (surface.newer_reply /\ \E i \in Frames : frames[i].state = "DONE")
    => /\ surface.deleted
       /\ surface.writer # "terminal"

(***************************************************************************)
(* Properties of the function-call continuation.                           *)
(***************************************************************************)
RolesOf(msgs) == [i \in 1..Len(msgs) |-> msgs[i].role]

\* what the turn has appended to the window it started with
Appended == SelectSeq(messages, LAMBDA m : m.role \in {"assistant", "function"})

\* assistant, function, assistant, ... : m roles
Alternating(m) == [i \in 1..m |-> IF i % 2 = 1 THEN "assistant" ELSE "function"]

\* the function of frame i resolved and returned: its result is in the window
Resolved(i) == i < Len(frames) \/ (i = cur /\ pc = "fc_stream")

\* C24: for every consumption that ended in FUNCTION_CALL and whose function
\* resolved and returned, one function message stands right after the
\* assistant message of that consumption; every continuation has its own
\* stream and its own consumption, and follows a consumption that ended in
\* FUNCTION_CALL.
C24_OneFunctionMessageOneStream ==
    frames # <<>> =>
       LET n == Len(frames)
           m == Len(Appended)
       IN  /\ RolesOf(SubSeq(messages, Len(messages) - m + 1, Len(messages)))
                 = Alternating(m)
           /\ m \in {2 * n - 1, 2 * n}
           /\ \A i \in Frames : Resolved(i) => m >= 2 * i
           /\ Len(streams) = n
           /\ \A i \in 2..n : frames[i - 1].state = "FUNCTION_CALL"

\* a continuation was consumed to its end: the window ends with the assistant
\* message of the call, the function message and the continuation's
\* assistant message
C24_Witness ==
    /\ Len(frames) = 2
    /\ frames[2].state = "DONE"
    /\ Len(streams) = 2
    /\ RolesOf(messages) = <<"system", "user", "assistant", "function", "assistant">>

\* the budget of the turn
TurnBudget ==
    max_context_tokens_of(TurnModelLimit, TurnResponseTokens, TurnFunctionModule)

\* C25: the messages a continuation stream is opened with fit the budget
\* whenever trimming them can achieve it.
C25_ContinuationTrimmed ==
    \A i \in 2..Len(streams) :
       LET sent == streams[i].messages
           r == messages_within_context_window(sent, TurnModelLimit,
                                               TurnResponseTokens,
                                               TurnFunctionModule)
       IN  r.final_token_count <= r.max_context_tokens
              => count_tokens(sent) <= r.max_context_tokens

\* C26: the timeout a continuation is given is the original timeout less the
\* time elapsed since the first consumption started, in whole seconds, and no
\* delta is applied once that time exceeds the original timeout.
C26_RemainingTimeout ==
    [][/\ (pc = "fc_stream" /\ pc' = "loop")
          => frames'[cur'].timeout_seconds
                = int_seconds(TIMEOUT_SECONDS * TicksPerSecond
                                 - (now - frames[1].start_time))
       /\ (pc = "loop"
           /\ now - frames[1].start_time > TIMEOUT_SECONDS * TicksPerSecond)
          => /\ frames'[cur].content = frames[cur].content
             /\ frames'[cur].function_call = frames[cur].function_call
      ]_vars

FunctionMessages == SelectSeq(messages, LAMBDA m : m.role = "function")

\* C27: when the buffered name is not in the function table or the buffered
\* arguments are not valid JSON, the function is not invoked, no function
\* message is appended, no continuation stream is opened, and once the
\* top-level handler has written, the in-progress message holds one failure
\* notice after its last rendered text.
C27_UnresolvedCallAborts ==
    \A i \in Frames :
       (/\ frames[i].state = "FUNCTION_CALL"
        /\ \/ frames[i].function_call.name \notin FunctionTable
           \/ frames[i].function_call.arguments \notin ValidJson)
       => /\ i = Len(frames)
          /\ Len(streams) = Len(frames)
          /\ pc \notin {"fc_invoke", "fc_stream"}
          /\ Len(FunctionMessages) = i - 1
          /\ (pc = "returned" /\ exc = "none")
                => /\ handled = "error"
                   /\ surface.writer = "error"
                   /\ surface.wip = wip_reply_text \o <<NL, NL>> \o FAILED_MESSAGE
                   /\ ~surface.deleted

\* a name the table has, arguments that do not parse, and the failure notice
\* on the in-progress message
C27_Witness ==
    /\ pc = "returned"
    /\ handled = "error"
    /\ frames # <<>>
    /\ frames[1].state = "FUNCTION_CALL"
    /\ frames[1].function_call.name \in FunctionTable
    /\ frames[1].function_call.arguments \notin ValidJson
    /\ surface.writer = "error"

(***************************************************************************)
(* Properties of the top-level handler.                                    *)
(***************************************************************************)
\* C28: a failure handler that writes to the surface updates the in-progress
\* message to its last rendered text followed by a blank line and the notice
\* of the failure, and posts no other message.
C28_FailureUpdatesInPlace ==
    [][(pc = "except" /\ surface' # surface)
         => /\ surface'.wip
                  = wip_reply_text \o <<NL, NL>>
                       \o (IF exc = "APITimeoutError" THEN TIMEOUT_ERROR_MESSAGE
                                                     ELSE FAILED_MESSAGE)
            /\ surface'.followups = surface.followups
            /\ surface'.deleted = surface.deleted
            /\ surface'.newer_reply = surface.newer_reply]_vars

\* a timeout after content was rendered: the in-progress message holds the
\* rendered content and the timeout notice
C28_Witness ==
    /\ pc = "returned"
    /\ handled = "timeout"
    /\ surface.writer = "timeout"
    /\ wip_reply_text \notin {<<>>, DEFAULT_LOADING_TEXT}
    /\ surface.wip = wip_reply_text \o <<NL, NL>> \o TIMEOUT_ERROR_MESSAGE

\* C30: a turn that failed before its in-progress message existed ends
\* without an exception leaving the top-level handler and without a write to
\* the surface.
C30_EarlyFailureRecorded ==
    (pc = "returned" /\ ~wip_reply_bound)
       => /\ exc = "none"
          /\ surface.wip = <<>>
          /\ surface.followups = <<>>

(***************************************************************************)
(* Properties of a consumption that receives function-call deltas only.    *)
(***************************************************************************)
\* every chunk is a function-call delta, and there is at least one
OnlyFunctionCallDeltas(ds) ==
    /\ ds # <<>>
    /\ \A k \in 1..Len(ds) :
          ds[k].choices /\ ~ds[k].has_content /\ ds[k].has_function_call

\* the fragments of a chunk sequence, concatenated in order
RECURSIVE Fragments(_)
Fragments(ds) ==
    IF ds = <<>> THEN [name |-> <<>>, arguments |-> <<>>]
    ELSE LET rest == Fragments(Tail(ds))
         IN  [name |-> Head(ds).name \o rest.name,
              arguments |-> Head(ds).arguments \o rest.arguments]

\* consumption i has no flush: no background thread, no terminal flush
NoFlush(i) ==
    /\ frames[i].threads = <<>>
    /\ \A t \in Threads : threads[t].frame # i
    /\ \A k \in 1..Len(flush_log) : flush_log[k].frame # i

\* the stream of consumption i was exhausted and the branch of line 707 taken
Branched(i) ==
    \/ frames[i].state \in {"FUNCTION_CALL", "DONE"}
    \/ i = cur /\ pc = "terminal"
    \/ \E k \in 1..Len(flush_log) : flush_log[k].frame = i

\* C29: a consumption whose stream yields function-call deltas only, once the
\* stream is exhausted, is in FUNCTION_CALL with the name and the arguments
\* the fragments concatenate to, and has made no flush.
C29_FunctionCallFirst ==
    \A i \in Frames :
       (OnlyFunctionCallDeltas(frames[i].received) /\ Branched(i))
       => /\ frames[i].state = "FUNCTION_CALL"
          /\ frames[i].function_call = Fragments(frames[i].received)
          /\ NoFlush(i)

\* C29, amended: a consumption whose stream yields function-call deltas only
\* that carry a non-empty name, once the stream is exhausted, is in
\* FUNCTION_CALL with the name and the arguments the fragments concatenate
\* to, and has made no flush; the buffer holds the fragments read so far and
\* no flush is made at any point of such a consumption.
C29_NamedFunctionCallFirst ==
    \A i \in Frames :
       OnlyFunctionCallDeltas(frames[i].received)
       => /\ frames[i].function_call = Fragments(Applied(i))
          /\ (Fragments(frames[i].received).name # <<>>
                => /\ NoFlush(i)
                   /\ ~(i = cur /\ pc = "terminal")
                   /\ Branched(i) => frames[i].state = "FUNCTION_CALL")

\* the name in the first delta, the arguments in the second, and the
\* function about to be invoked
C29_Witness ==
    /\ pc = "fc_invoke"
    /\ frames # <<>>
    /\ frames[1].state = "FUNCTION_CALL"
    /\ Len(frames[1].received) = 2
    /\ OnlyFunctionCallDeltas(frames[1].received)
    /\ frames[1].function_call = [name |-> <<"f">>, arguments |-> <<"{}">>]

(***************************************************************************)
(* Properties of the provider streams of a turn.                           *)
(***************************************************************************)
\* C33: when the turn has ended, by returning or by an exception handled at
\* the top level, every provider stream it opened has been closed.
C33_StreamsClosed ==
    pc = "returned" => \A i \in 1..Len(streams) : streams[i].status = "closed"

(***************************************************************************)
(* Properties of the background flushes.                                   *)
(***************************************************************************)
\* thread t has read the text it renders
HasRead(t) == threads[t].status # "started"

\* C34: the text a background flush renders is a prefix of the text
\* accumulated by its consumption, now and hence at its end, and has at least
\* the text that was accumulated when the flush was scheduled.
C34_FlushRendersPrefix ==
    \A t \in Threads :
       HasRead(t)
       => /\ IsPrefix(threads[t].content, frames[threads[t].frame].content)
          /\ IsPrefix(threads[t].scheduled, threads[t].content)
          /\ threads[t].text = format_llm_message_for_slack(threads[t].content)

\* a flush that ran after more text had arrived than it was scheduled with,
\* and before the last of the text
C34_Witness ==
    \E t \in Threads :
       /\ threads[t].status = "finished"
       /\ Len(threads[t].content) > Len(threads[t].scheduled)
       /\ Len(frames[threads[t].frame].content) > Len(threads[t].content)

\* a background flush of consumption i has failed
FlushFailed(i) == \E t \in Threads : threads[t].frame = i /\ threads[t].status = "raised"

\* the terminal flushes of consumption i
TerminalFlushes(i) == SelectSeq(flush_log, LAMBDA e : e.frame = i)

\* C35: the step in which a background flush fails changes neither the
\* position nor the exception nor the consumptions of the main thread; a
\* consumption with a failed flush has applied every delta it read, reaches
\* its terminal flush only with every thread joined, and makes its terminal
\* flush with the whole accumulated text.
C35_FlushFailureContained ==
    /\ [][\A t \in Threads :
            (threads[t].status # "raised" /\ threads'[t].status = "raised")
            => UNCHANGED <<pc, exc, frames, cur>>]_vars
    /\ [](\A i \in Frames :
            FlushFailed(i)
            => /\ frames[i].content = ContentOf(Applied(i))
               /\ (i = cur /\ pc = "terminal") => \A t \in Threads : ~is_alive(t)
               /\ frames[i].state = "DONE"
                     => /\ Len(TerminalFlushes(i)) = 1
                        /\ TerminalFlushes(i)[1].content = frames[i].content
                        /\ TerminalFlushes(i)[1].loading_character = <<>>)

\* a background flush failed, a content delta was applied after it was
\* scheduled, and the consumption ended with its terminal flush
C35_Witness ==
    /\ pc = "returned"
    /\ exc = "none"
    /\ frames # <<>>
    /\ frames[1].state = "DONE"
    /\ \E t \in Threads :
          /\ threads[t].frame = 1
          /\ threads[t].status = "raised"
          /\ Len(frames[1].content) > Len(threads[t].scheduled)
    /\ surface.writer = "terminal"

\* the content deltas of a chunk sequence: the chunks with choices whose
\* delta.content is not None
ContentDeltas(ds) == SelectSeq(ds, LAMBDA d : d.choices /\ d.has_content)

\* C36: between two iterations of the loop the counter of a consumption is
\* the number of content deltas applied modulo the threshold, hence at least
\* 0 and below the threshold, and the consumption has scheduled one
\* background flush for every full threshold of content deltas.
C36_FlushEveryThreshold ==
    \A i \in Frames :
       LET n == Len(ContentDeltas(Applied(i)))
       IN  /\ frames[i].word_count = n % WORD_COUNT_THRESHOLD
           /\ frames[i].word_count >= 0
           /\ frames[i].word_count < WORD_COUNT_THRESHOLD
           /\ Len(frames[i].threads) = n \div WORD_COUNT_THRESHOLD
           /\ \A k \in 1..Len(frames[i].threads) :
                 threads[frames[i].threads[k]].frame = i

\* one content delta over the threshold: one flush scheduled at the
\* threshold, the counter reset then and now at 1
C36_Witness ==
    /\ frames # <<>>
    /\ Len(ContentDeltas(Applied(1))) = WORD_COUNT_THRESHOLD + 1
    /\ Len(frames[1].threads) = 1
    /\ frames[1].word_count = 1

(***************************************************************************)
(* Properties of the event handlers.                                       *)
(***************************************************************************)
\* C32: of the two events of one message, at most one starts a turn.
C32_OneTurnPerMessage ==
    ~(ev_stage["message"] = "turn" /\ ev_stage["app_mention"] = "turn")

\* C37: a message event whose subtype is message_changed or message_deleted
\* is answered by before_authorize and reaches no handler; every other event
\* is passed on and never answered by the middleware.
C37_SkippedSubtypes ==
    /\ ev_msg.subtype \in {"message_changed", "message_deleted"}
          => ev_stage["message"] \in {"pending", "answered"}
    /\ ev_msg.subtype \notin {"message_changed", "message_deleted"}
          => ev_stage["message"] # "answered"
    /\ ev_stage["app_mention"] # "answered"

\* the deletion of a message in a direct message conversation was answered
\* by the middleware, while the app_mention event of the message went on
C37_Witness ==
    /\ ev_msg.subtype = "message_deleted"
    /\ is_in_dm(ev_msg)
    /\ ev_stage["message"] = "answered"
    /\ ev_stage["app_mention"] \in {"returned", "turn"}

(***************************************************************************)
(* Properties of split_message on long lines and on blank text.            *)
(***************************************************************************)
\* the lines of the text of the call
CallLines == split_lines(split_args.message, <<>>)

\* where line j starts in the text, less one
RECURSIVE LineOffset(_)
LineOffset(j) == IF j = 1 THEN 0 ELSE LineOffset(j - 1) + Len(CallLines[j - 1]) + 1

\* the chunks made of the lines before line j
ChunksBefore(j) ==
    IF j = 1 THEN <<>>
    ELSE split_message(SubSeq(split_args.message, 1, LineOffset(j) - 1),
                       split_args.max_chunk_length)

\* line j is cut into q pieces of max characters, the k-th being ...
PieceCount(j) == (Len(CallLines[j]) - 1) \div split_args.max_chunk_length

Piece(j, k) ==
    SubSeq(CallLines[j], (k - 1) * split_args.max_chunk_length + 1,
           k * split_args.max_chunk_length)

\* ... and this is left of it
Remainder(j) ==
    SubSeq(CallLines[j], PieceCount(j) * split_args.max_chunk_length + 1,
           Len(CallLines[j]))

\* the pieces of line j follow the chunks of the lines before it, and the
\* chunk after them starts with start
HardSplit(j, start) ==
    LET before == Len(ChunksBefore(j))
        q == PieceCount(j)
    IN  /\ Len(split_result) >= before + q + 1
        /\ SubSeq(split_result, 1, before) = ChunksBefore(j)
        /\ \A k \in 1..q : split_result[before + k] = Piece(j, k)
        /\ Len(Remainder(j)) \in 1..split_args.max_chunk_length
        /\ IsPrefix(start, split_result[before + q + 1])

\* C38: a line longer than max_chunk_length is cut into consecutive pieces of
\* exactly max_chunk_length characters, in order, and the chunk after them
\* starts with what is left of the line.
C38_HardSplit ==
    split_pc = "return" =>
       \A j \in 1..Len(CallLines) :
          Len(CallLines[j]) > split_args.max_chunk_length
             => HardSplit(j, Remainder(j))

\* C38, amended: a line longer than max_chunk_length is cut into consecutive
\* pieces of exactly max_chunk_length characters, in order, and the chunk
\* after them starts with what is left of the line less the whitespace at
\* its two ends.
C38_HardSplitStripped ==
    split_pc = "return" =>
       \A j \in 1..Len(CallLines) :
          Len(CallLines[j]) > split_args.max_chunk_length
             => HardSplit(j, strip(Remainder(j)))

\* a line of four characters was cut after two: the piece is kept as it is,
\* and the chunk after it starts with the rest less its leading blank
C38_Witness ==
    /\ split_pc = "return"
    /\ split_args = [message |-> <<"a", "a", " ", "a">>, max_chunk_length |-> 2]
    /\ split_result = << <<"a", "a">>, <<"a">> >>

\* C40: a text with a character that is not whitespace is split into chunks
\* none of which is empty.
C40_NoEmptyChunk ==
    (split_pc = "return" /\ ~AllWhitespace(split_args.message))
       => \A i \in 1..Len(split_result) : split_result[i] # <<>>

(***************************************************************************)
(* Properties of the trimmer: nothing is removed without need.             *)
(***************************************************************************)
\* how many messages the loop removed
RemovedCount ==
    Len(NonSystem(trim_args.messages)) - Len(NonSystem(trim_result.final_messages))

\* the message the loop removed last: the newest of the removed ones
LastRemoved == NonSystem(trim_args.messages)[RemovedCount]

\* C39: when the loop removed at least one message, the returned window
\* together with the message removed last is over the budget.
C39_NoMoreThanNecessary ==
    (trim_pc = "return" /\ RemovedCount >= 1)
       => /\ RemovedCount = trim_iterations
          /\ TokenSum(trim_result.final_messages) + LastRemoved.tokens
                > trim_result.max_context_tokens

\* two messages were removed, the returned window fits, and with the second
\* of them it would not
C39_Witness ==
    /\ trim_pc = "return"
    /\ RemovedCount = 2
    /\ trim_result.final_token_count <= trim_result.max_context_tokens
    /\ LastRemoved.tokens > 0
    /\ Len(trim_result.final_messages) >= 1

=============================================================================
